---- MODULE Spec2Model ----
(***************************************************************************)
(* Model of the static_init! procedural macro                              *)
(* (static-initializer-macros/src/lib.rs) and of the lifecycle of the     *)
(* code it generates: macro expansion and compilation of a crate, the      *)
(* loader's construct phase, the entry point with user threads, and the    *)
(* destruct phase.                                                         *)
(*                                                                         *)
(* Strings (section names, identifiers) are sequences of ASCII codes, so   *)
(* that formatting, lower-casing and lexical comparison are computed.      *)
(***************************************************************************)
EXTENDS Integers, Sequences, FiniteSets, TLC

VARIABLES
    target_os,    \* the target_os the crate is compiled for
    crate,        \* the expansions of the static_init! invocations so far
    phase,        \* "build", "rejected", "construct", "main", "destruct",
                  \* "exited", "fault" (startup abort), "crashed"
    cell,         \* per binding: state of INTERNAL (the MaybeUninit cell)
    val,          \* per binding: contents of INTERNAL
    ctorPending,  \* _I entries the loader has not invoked yet
    dtorPending,  \* _D entries the loader has not invoked yet
    initEvals,    \* per binding: evaluations of the initializer block
    drops,        \* per binding: runs of assume_init_drop
    ctorOrder,    \* names in the order their init() was invoked
    panicked,     \* bindings whose initializer block panicked
    running,      \* number of user threads spawned by main and still alive
    lastRead,     \* what the last deref() observed
    secIn,        \* section scheduler driver: the two inputs
    secOut        \* section scheduler driver: the two generated names

vars == <<target_os, crate, phase, cell, val, ctorPending, dtorPending,
          initEvals, drops, ctorOrder, panicked, running, lastRead,
          secIn, secOut>>

lifeVars == <<target_os, crate, phase, cell, val, ctorPending, dtorPending,
              initEvals, drops, ctorOrder, panicked, running, lastRead>>

(***************************************************************************)
(* Bounds of the model.                                                    *)
(***************************************************************************)
MaxBindings == 2
MaxThreads == 1
MaxSmallPriority == 11

(***************************************************************************)
(* Program constants.                                                      *)
(***************************************************************************)
\* The largest value of the u16 priority parameter.
U16_MAX == 65535

\* Variant: the priority one below the maximum.
DefaultPriority_off_by_one == U16_MAX - 1

\* `let priority: u16 = 65535;` of static_init.
DefaultPriority == 65535

(***************************************************************************)
(* String literals of the source, as ASCII codes.                          *)
(***************************************************************************)
\* ".CRT$XCU"
STR_CRT_XCU == <<46, 67, 82, 84, 36, 88, 67, 85>>
\* ".CRT$XPTZ"
STR_CRT_XPTZ == <<46, 67, 82, 84, 36, 88, 80, 84, 90>>
\* "__DATA,__mod_init_func"
STR_MOD_INIT_FUNC == <<95, 95, 68, 65, 84, 65, 44, 95, 95, 109, 111, 100, 95,
                       105, 110, 105, 116, 95, 102, 117, 110, 99>>
\* "__DATA,__mod_term_func"
STR_MOD_TERM_FUNC == <<95, 95, 68, 65, 84, 65, 44, 95, 95, 109, 111, 100, 95,
                       116, 101, 114, 109, 95, 102, 117, 110, 99>>
\* ".init_array."
STR_INIT_ARRAY == <<46, 105, 110, 105, 116, 95, 97, 114, 114, 97, 121, 46>>
\* ".fini_array."
STR_FINI_ARRAY == <<46, 102, 105, 110, 105, 95, 97, 114, 114, 97, 121, 46>>
\* "__static_init_module_n"
STR_MODULE_PREFIX == <<95, 95, 115, 116, 97, 116, 105, 99, 95, 105, 110, 105,
                       116, 95, 109, 111, 100, 117, 108, 101, 95, 110>>

(***************************************************************************)
(* format!("{:05}", priority): the decimal digits of the number, padded    *)
(* on the left with '0' up to a width of 5; a longer number is not cut.    *)
(***************************************************************************)
RECURSIVE to_decimal(_)
to_decimal(n) ==
    IF n < 10 THEN <<48 + n>>
    ELSE Append(to_decimal(n \div 10), 48 + (n % 10))

RECURSIVE pad_zero(_, _)
pad_zero(s, width) ==
    IF Len(s) >= width THEN s ELSE pad_zero(<<48>> \o s, width)

\* Variant: "{}" in place of "{:05}" (no padding).
format_05_nopad(priority) == to_decimal(priority)

format_05(priority) == pad_zero(to_decimal(priority), 5)

(***************************************************************************)
(* The cfg predicates over target_os.                                      *)
(***************************************************************************)
cfg_windows(os) == os = "windows"

cfg_apple(os) == os \in {"macos", "ios"}

cfg_unix(os) == os \in {"linux", "android"}

\* Variant: a cfg that no target satisfies.
cfg_unsupported_never(os) == FALSE

cfg_unsupported(os) == ~(cfg_windows(os) \/ cfg_apple(os) \/ cfg_unix(os))

(***************************************************************************)
(* The section literals of get_initializer_attributes and                  *)
(* get_deinitializer_attributes.                                           *)
(***************************************************************************)
init_win_sections(priority) == STR_CRT_XCU \o format_05(priority)

init_apple_sections(priority) == STR_MOD_INIT_FUNC

init_unix_sections(priority) == STR_INIT_ARRAY \o format_05(priority)

deinit_win_sections(priority) == STR_CRT_XPTZ \o format_05(priority)

deinit_apple_sections(priority) == STR_MOD_TERM_FUNC

\* Variant: the destructor placed under the constructor prefix.
deinit_unix_sections_as_init(priority) == STR_INIT_ARRAY \o format_05(priority)

deinit_unix_sections(priority) == STR_FINI_ARRAY \o format_05(priority)

(***************************************************************************)
(* The attributes emitted before a registration static: compile_error is   *)
(* whether the `compiler_error!(..)` item survives cfg-stripping, and      *)
(* link_sections are the sections of the cfg_attr(.., link_section = ..)   *)
(* attributes whose cfg holds.                                             *)
(***************************************************************************)
get_initializer_attributes(os, priority) ==
    [compiler_error |-> cfg_unsupported(os),
     link_sections |->
         (IF cfg_windows(os) THEN {init_win_sections(priority)} ELSE {})
         \cup (IF cfg_apple(os) THEN {init_apple_sections(priority)} ELSE {})
         \cup (IF cfg_unix(os) THEN {init_unix_sections(priority)} ELSE {})]

get_deinitializer_attributes(os, priority) ==
    [compiler_error |-> cfg_unsupported(os),
     link_sections |->
         (IF cfg_windows(os) THEN {deinit_win_sections(priority)} ELSE {})
         \cup (IF cfg_apple(os) THEN {deinit_apple_sections(priority)} ELSE {})
         \cup (IF cfg_unix(os) THEN {deinit_unix_sections(priority)} ELSE {})]

(***************************************************************************)
(* get_module_ident: "__static_init_module_n" followed by the lower-cased  *)
(* name (ASCII letters A-Z map to a-z).                                    *)
(***************************************************************************)
to_lowercase(s) ==
    [i \in 1..Len(s) |-> IF s[i] \in 65..90 THEN s[i] + 32 ELSE s[i]]

get_module_ident(var) == STR_MODULE_PREFIX \o to_lowercase(var)

(***************************************************************************)
(* Lexical (character by character) order of strings.                      *)
(***************************************************************************)
LexLess(s, t) ==
    LET n == IF Len(s) < Len(t) THEN Len(s) ELSE Len(t)
        diff == {i \in 1..n : s[i] # t[i]}
    IN  IF diff = {}
        THEN Len(s) < Len(t)
        ELSE LET k == CHOOSE i \in diff : \A j \in diff : i <= j
             IN  s[k] < t[k]

(***************************************************************************)
(* Sample declarations: names, value types with their capabilities, and    *)
(* initializer blocks (what the block evaluates to, or that it panics).    *)
(***************************************************************************)
\* "TEST", "Test", "OTHER", "X"
NAME_TEST == <<84, 69, 83, 84>>
NAME_Test == <<84, 101, 115, 116>>
NAME_OTHER == <<79, 84, 72, 69, 82>>
NAME_X == <<88>>

Names == {NAME_TEST, NAME_Test, NAME_OTHER, NAME_X}

Types ==
    {[ty |-> "Vec<u8>", sync |-> TRUE, sized |-> TRUE],
     [ty |-> "Cell<u8>", sync |-> FALSE, sized |-> TRUE],
     [ty |-> "[u8]", sync |-> TRUE, sized |-> FALSE]}

InitBlocks ==
    {[panics |-> FALSE, result |-> "(0..15u8).collect()"],
     [panics |-> FALSE, result |-> "Vec::new()"],
     [panics |-> TRUE, result |-> "!"]}

\* Every target_os the cfg predicates name, and one they do not.
TargetOS == {"windows", "macos", "ios", "linux", "android", "freebsd"}

\* What a read of memory that holds no live value may return.
Garbage == {"garbage"}

(***************************************************************************)
(* StaticWithInitializer: what the parser keeps of one declaration.        *)
(***************************************************************************)
StaticWithInitializer(name, ty, init) ==
    [name |-> name, ty |-> ty, init |-> init]

(***************************************************************************)
(* static_init: the expansion of one declaration. assert_sync and          *)
(* assert_sized are whether the where-clause of the assertion struct       *)
(* holds; I_sections and D_sections are the link sections of the two       *)
(* registration statics _I and _D.                                         *)
(***************************************************************************)
\* Variant: the _I registration static left out.
static_init_no_I(item, os) ==
    LET priority == DefaultPriority
        init_attributes == get_initializer_attributes(os, priority)
        deinit_attributes == get_deinitializer_attributes(os, priority)
    IN  [name |-> item.name,
         ty |-> item.ty,
         init |-> item.init,
         module_name |-> get_module_ident(item.name),
         assert_sync |-> item.ty.sync,
         assert_sized |-> item.ty.sized,
         priority |-> priority,
         compiler_error |-> init_attributes.compiler_error
                            \/ deinit_attributes.compiler_error,
         I_sections |-> {},
         D_sections |-> deinit_attributes.link_sections]

static_init(item, os) ==
    LET priority == DefaultPriority
        init_attributes == get_initializer_attributes(os, priority)
        deinit_attributes == get_deinitializer_attributes(os, priority)
    IN  [name |-> item.name,
         ty |-> item.ty,
         init |-> item.init,
         module_name |-> get_module_ident(item.name),
         assert_sync |-> item.ty.sync,
         assert_sized |-> item.ty.sized,
         priority |-> priority,
         compiler_error |-> init_attributes.compiler_error
                            \/ deinit_attributes.compiler_error,
         I_sections |-> init_attributes.link_sections,
         D_sections |-> deinit_attributes.link_sections]

(***************************************************************************)
(* The compiler's errors on the expanded crate: the unsatisfied            *)
(* where-clauses of _AssertSync / _AssertSized (and MaybeUninit<T> of an   *)
(* unsized T), the surviving `compiler_error!` item (no macro of that name *)
(* exists: the item is an error wherever it is not cfg-stripped), and two  *)
(* items of one name in one scope (the facade structs, the modules).       *)
(***************************************************************************)
rustc_errors(c) ==
    {"E0277: Sync is not implemented" : x \in {y \in c : ~y.assert_sync}}
    \cup {"E0277: size cannot be known" :
              x \in {y \in c : ~y.assert_sized \/ ~y.ty.sized}}
    \cup {"cannot find macro compiler_error" :
              x \in {y \in c : y.compiler_error}}
    \cup {"E0428: the name is defined multiple times" :
              x \in {y \in c : \E z \in c :
                        z # y /\ (z.module_name = y.module_name
                                  \/ z.name = y.name)}}

Declared == {x.name : x \in crate}

ItemOf(b) == CHOOSE x \in crate : x.name = b

\* The constructor / destructor tables of the linked binary.
init_table(c) ==
    UNION {{[section |-> s, fn |-> x.name] : s \in x.I_sections} : x \in c}

fini_table(c) ==
    UNION {{[section |-> s, fn |-> x.name] : s \in x.D_sections} : x \in c}

NoRead == [ctx |-> "none", name |-> <<>>, st |-> "none", got |-> "none",
           phase |-> "none"]

SecIdleIn == [os |-> "linux", ph1 |-> "construct", p1 |-> 0,
              ph2 |-> "construct", p2 |-> 0]

SecIdleOut == [n1 |-> {}, done1 |-> FALSE, n2 |-> {}, done2 |-> FALSE]

LifeInit ==
    /\ target_os \in TargetOS
    /\ crate = {}
    /\ phase = "build"
    /\ cell = [n \in Names |-> "Uninitialized"]
    /\ val = [n \in Names |-> "uninit"]
    /\ ctorPending = {}
    /\ dtorPending = {}
    /\ initEvals = [n \in Names |-> 0]
    /\ drops = [n \in Names |-> 0]
    /\ ctorOrder = <<>>
    /\ panicked = {}
    /\ running = 0
    /\ lastRead = NoRead

Init ==
    /\ LifeInit
    /\ secIn = SecIdleIn
    /\ secOut = SecIdleOut

(***************************************************************************)
(* Build time.                                                             *)
(***************************************************************************)
\* One static_init! { static NAME: TY = unsafe static { INIT }; } is expanded.
Declare(name, ty, init) ==
    /\ phase = "build"
    /\ Cardinality(crate) < MaxBindings
    /\ name \notin Declared
    /\ crate' = crate \cup
                  {static_init(StaticWithInitializer(name, ty, init), target_os)}
    /\ UNCHANGED <<target_os, phase, cell, val, ctorPending, dtorPending,
                   initEvals, drops, ctorOrder, panicked, running, lastRead,
                   secIn, secOut>>

\* The crate is compiled and linked: any error rejects the build, otherwise
\* the binary is produced and the loader starts its construct phase.
Compile ==
    /\ phase = "build"
    /\ IF rustc_errors(crate) # {}
       THEN /\ phase' = "rejected"
            /\ UNCHANGED <<ctorPending, dtorPending>>
       ELSE /\ phase' = "construct"
            /\ ctorPending' = init_table(crate)
            /\ dtorPending' = fini_table(crate)
    /\ UNCHANGED <<target_os, crate, cell, val, initEvals, drops, ctorOrder,
                   panicked, running, lastRead, secIn, secOut>>

(***************************************************************************)
(* Run time. The loader walks the constructor table before the entry point *)
(* and the destructor table after it returns; it visits sections in the    *)
(* platform's order and entries of one section in an order of its own.     *)
(***************************************************************************)
\* Section s is visited before section t in the construct phase.
LoaderCtorBefore(os, s, t) ==
    (cfg_windows(os) \/ cfg_unix(os)) /\ LexLess(s, t)

\* Section s is visited before section t in the destruct phase
\* (.fini_array runs in reverse).
LoaderDtorBefore(os, s, t) ==
    \/ cfg_windows(os) /\ LexLess(s, t)
    \/ cfg_unix(os) /\ LexLess(t, s)

\* The loader calls _I of entry e: init() evaluates the initializer block and
\* writes its result into INTERNAL. A panic in the block unwinds out of
\* init() into the loader, which has no handler: the process aborts.
\* Variant: the block is evaluated and its result discarded.
init_no_write(e) ==
    LET b == e.fn
        item == ItemOf(b)
    IN  /\ phase = "construct"
        /\ e \in ctorPending
        /\ \A f \in ctorPending :
               ~LoaderCtorBefore(target_os, f.section, e.section)
        /\ ctorPending' = ctorPending \ {e}
        /\ initEvals' = [initEvals EXCEPT ![b] = @ + 1]
        /\ ctorOrder' = Append(ctorOrder, b)
        /\ IF item.init.panics
           THEN /\ phase' = "fault"
                /\ panicked' = panicked \cup {b}
                /\ UNCHANGED <<cell, val>>
           ELSE UNCHANGED <<phase, panicked, cell, val>>
        /\ UNCHANGED <<target_os, crate, dtorPending, drops, running, lastRead,
                       secIn, secOut>>

\* Variant: the panic is caught in init(), which returns to the loader.
init_swallow_panic(e) ==
    LET b == e.fn
        item == ItemOf(b)
    IN  /\ phase = "construct"
        /\ e \in ctorPending
        /\ \A f \in ctorPending :
               ~LoaderCtorBefore(target_os, f.section, e.section)
        /\ ctorPending' = ctorPending \ {e}
        /\ initEvals' = [initEvals EXCEPT ![b] = @ + 1]
        /\ ctorOrder' = Append(ctorOrder, b)
        /\ IF item.init.panics
           THEN /\ panicked' = panicked \cup {b}
                /\ UNCHANGED <<phase, cell, val>>
           ELSE /\ cell' = [cell EXCEPT ![b] = "Initialized"]
                /\ val' = [val EXCEPT ![b] = item.init.result]
                /\ UNCHANGED <<phase, panicked>>
        /\ UNCHANGED <<target_os, crate, dtorPending, drops, running, lastRead,
                       secIn, secOut>>

init(e) ==
    LET b == e.fn
        item == ItemOf(b)
    IN  /\ phase = "construct"
        /\ e \in ctorPending
        /\ \A f \in ctorPending :
               ~LoaderCtorBefore(target_os, f.section, e.section)
        /\ ctorPending' = ctorPending \ {e}
        /\ initEvals' = [initEvals EXCEPT ![b] = @ + 1]
        /\ ctorOrder' = Append(ctorOrder, b)
        /\ IF item.init.panics
           THEN /\ phase' = "fault"
                /\ panicked' = panicked \cup {b}
                /\ UNCHANGED <<cell, val>>
           ELSE /\ cell' = [cell EXCEPT ![b] = "Initialized"]
                /\ val' = [val EXCEPT ![b] = item.init.result]
                /\ UNCHANGED <<phase, panicked>>
        /\ UNCHANGED <<target_os, crate, dtorPending, drops, running, lastRead,
                       secIn, secOut>>

\* Every constructor has run: control passes to the entry point.
EnterMain ==
    /\ phase = "construct"
    /\ ctorPending = {}
    /\ phase' = "main"
    /\ UNCHANGED <<target_os, crate, cell, val, ctorPending, dtorPending,
                   initEvals, drops, ctorOrder, panicked, running, lastRead,
                   secIn, secOut>>

\* User code in main starts a thread; nothing joins it before main returns.
Spawn ==
    /\ phase = "main"
    /\ running < MaxThreads
    /\ running' = running + 1
    /\ UNCHANGED <<target_os, crate, phase, cell, val, ctorPending,
                   dtorPending, initEvals, drops, ctorOrder, panicked,
                   lastRead, secIn, secOut>>

ThreadExit ==
    /\ phase \in {"main", "destruct"}
    /\ running > 0
    /\ running' = running - 1
    /\ UNCHANGED <<target_os, crate, phase, cell, val, ctorPending,
                   dtorPending, initEvals, drops, ctorOrder, panicked,
                   lastRead, secIn, secOut>>

\* The entry point returns normally: the destruct phase starts.
MainReturn ==
    /\ phase = "main"
    /\ phase' = "destruct"
    /\ UNCHANGED <<target_os, crate, cell, val, ctorPending, dtorPending,
                   initEvals, drops, ctorOrder, panicked, running, lastRead,
                   secIn, secOut>>

\* The loader calls _D of entry e: deinit() runs assume_init_drop on INTERNAL.
\* On a cell that holds no live value that is undefined behaviour: the drop
\* of garbage either goes through or crashes the process.
deinit(e) ==
    LET b == e.fn
    IN  /\ phase = "destruct"
        /\ e \in dtorPending
        /\ \A f \in dtorPending :
               ~LoaderDtorBefore(target_os, f.section, e.section)
        /\ dtorPending' = dtorPending \ {e}
        /\ drops' = [drops EXCEPT ![b] = @ + 1]
        /\ \/ /\ cell' = [cell EXCEPT ![b] = "Destroyed"]
              /\ val' = [val EXCEPT ![b] = "dropped"]
              /\ UNCHANGED phase
           \/ /\ cell[b] # "Initialized"
              /\ phase' = "crashed"
              /\ UNCHANGED <<cell, val>>
        /\ UNCHANGED <<target_os, crate, ctorPending, initEvals, ctorOrder,
                       panicked, running, lastRead, secIn, secOut>>

\* Every destructor has run: the process ends, and with it its threads.
Exit ==
    /\ phase = "destruct"
    /\ dtorPending = {}
    /\ phase' = "exited"
    /\ running' = 0
    /\ UNCHANGED <<target_os, crate, cell, val, ctorPending, dtorPending,
                   initEvals, drops, ctorOrder, panicked, lastRead, secIn,
                   secOut>>

(***************************************************************************)
(* The Access Facade. Code that can call deref(): an initializer block     *)
(* that is about to run ("init"), the entry point ("main"), a spawned      *)
(* thread ("thread"), the Drop of a value that is about to be torn down    *)
(* ("drop").                                                               *)
(***************************************************************************)
Contexts == {"init", "main", "thread", "drop"}

CanRun(ctx) ==
    \/ ctx = "init" /\ phase = "construct" /\ ctorPending # {}
    \/ ctx = "main" /\ phase = "main"
    \/ ctx = "thread" /\ phase \in {"main", "destruct"} /\ running > 0
    \/ ctx = "drop" /\ phase = "destruct" /\ dtorPending # {}

\* deref(): assume_init_ref on INTERNAL, with no check of the cell. On a
\* cell that holds no live value that is undefined behaviour: the read
\* returns garbage or crashes the process.
\* Variant: deref() waits for the cell to be Initialized.
deref_checked(ctx, b) ==
    /\ CanRun(ctx)
    /\ b \in Declared
    /\ cell[b] = "Initialized"
    /\ lastRead' = [ctx |-> ctx, name |-> b, st |-> cell[b],
                    got |-> val[b], phase |-> phase]
    /\ UNCHANGED phase
    /\ UNCHANGED <<target_os, crate, cell, val, ctorPending, dtorPending,
                   initEvals, drops, ctorOrder, panicked, running, secIn,
                   secOut>>

deref(ctx, b) ==
    /\ CanRun(ctx)
    /\ b \in Declared
    /\ \/ /\ cell[b] = "Initialized"
          /\ lastRead' = [ctx |-> ctx, name |-> b, st |-> cell[b],
                          got |-> val[b], phase |-> phase]
          /\ UNCHANGED phase
       \/ /\ cell[b] # "Initialized"
          /\ \E g \in Garbage :
                 lastRead' = [ctx |-> ctx, name |-> b, st |-> cell[b],
                              got |-> g, phase |-> phase]
          /\ UNCHANGED phase
       \/ /\ cell[b] # "Initialized"
          /\ lastRead' = [ctx |-> ctx, name |-> b, st |-> cell[b],
                          got |-> "crash", phase |-> phase]
          /\ phase' = "crashed"
    /\ UNCHANGED <<target_os, crate, cell, val, ctorPending, dtorPending,
                   initEvals, drops, ctorOrder, panicked, running, secIn,
                   secOut>>

Next ==
    \/ \E name \in Names, ty \in Types, blk \in InitBlocks :
           Declare(name, ty, blk)
    \/ Compile
    \/ \E e \in ctorPending : init(e)
    \/ EnterMain
    \/ Spawn
    \/ ThreadExit
    \/ MainReturn
    \/ \E e \in dtorPending : deinit(e)
    \/ Exit
    \/ \E ctx \in Contexts, b \in Names : deref(ctx, b)

Spec == Init /\ [][Next]_vars

(***************************************************************************)
(* The section scheduler on its own: the section names of two              *)
(* (phase, priority) pairs on one target are generated and compared.       *)
(***************************************************************************)
Phases == {"construct", "destruct"}

\* Sample priorities: the small ones, both sides of every power of ten, and
\* the ends of the u16 range.
Priorities ==
    (0..MaxSmallPriority)
    \cup {99, 100, 999, 1000, 9999, 10000, 32767, 32768, U16_MAX - 1, U16_MAX}

\* The link sections the registration static of a phase gets on a target.
sectionName(os, ph, priority) ==
    IF ph = "construct"
    THEN get_initializer_attributes(os, priority).link_sections
    ELSE get_deinitializer_attributes(os, priority).link_sections

SecInit ==
    /\ target_os = "linux"
    /\ crate = {}
    /\ phase = "build"
    /\ cell = [n \in Names |-> "Uninitialized"]
    /\ val = [n \in Names |-> "uninit"]
    /\ ctorPending = {}
    /\ dtorPending = {}
    /\ initEvals = [n \in Names |-> 0]
    /\ drops = [n \in Names |-> 0]
    /\ ctorOrder = <<>>
    /\ panicked = {}
    /\ running = 0
    /\ lastRead = NoRead
    /\ secIn \in [os : TargetOS, ph1 : Phases, p1 : Priorities,
                  ph2 : Phases, p2 : Priorities]
    /\ secOut = SecIdleOut

GenerateFirst ==
    /\ ~secOut.done1
    /\ secOut' = [secOut EXCEPT
                     !.n1 = sectionName(secIn.os, secIn.ph1, secIn.p1),
                     !.done1 = TRUE]
    /\ UNCHANGED <<lifeVars, secIn>>

GenerateSecond ==
    /\ ~secOut.done2
    /\ secOut' = [secOut EXCEPT
                     !.n2 = sectionName(secIn.os, secIn.ph2, secIn.p2),
                     !.done2 = TRUE]
    /\ UNCHANGED <<lifeVars, secIn>>

SecNext == GenerateFirst \/ GenerateSecond

SpecSections == SecInit /\ [][SecNext]_vars

(***************************************************************************)
(* Properties.                                                             *)
(***************************************************************************)
NormalPhases == {"main", "destruct", "exited"}

\* C1: in every normal run each binding's initializer is evaluated exactly
\* once, and that evaluation has completed (the cell is written) before the
\* entry point starts; the stored value is dropped exactly once, and only
\* after the entry point has returned.
C1_InitOnceBeforeMain_DropOnceAfter ==
    \A b \in Declared :
        /\ initEvals[b] <= 1
        /\ drops[b] <= 1
        /\ phase \in NormalPhases =>
               initEvals[b] = 1 /\ b \notin panicked
               /\ cell[b] # "Uninitialized"
        /\ phase \in {"build", "rejected", "construct", "fault", "main"} =>
               drops[b] = 0
        /\ phase = "exited" => drops[b] = 1

C1_Witness ==
    /\ phase = "exited"
    /\ Cardinality(Declared) = 2
    /\ \A b \in Declared : initEvals[b] = 1 /\ drops[b] = 1

\* C2: while the entry point runs (construct phase completed, destruct phase
\* not reached) every cell is Initialized and holds its initializer's
\* result, and every deref() made then observed exactly that.
C2_ReadsInMainSeeInitializedValue ==
    /\ phase = "main" =>
           \A b \in Declared :
               cell[b] = "Initialized" /\ val[b] = ItemOf(b).init.result
    /\ lastRead.phase = "main" =>
           /\ lastRead.st = "Initialized"
           /\ lastRead.got = ItemOf(lastRead.name).init.result

C2_Witness ==
    /\ lastRead.phase = "main"
    /\ lastRead.ctx = "thread"
    /\ lastRead.name = NAME_TEST
    /\ lastRead.got = "(0..15u8).collect()"
    /\ Cardinality(Declared) = 2

\* ".init_array.65535", "00010", "00020"
STR_INIT_ARRAY_65535 == <<46, 105, 110, 105, 116, 95, 97, 114, 114, 97, 121,
                          46, 54, 53, 53, 51, 53>>
STR_00010 == <<48, 48, 48, 49, 48>>
STR_00020 == <<48, 48, 48, 50, 48>>

EndsWith(s, suffix) ==
    /\ Len(s) >= Len(suffix)
    /\ SubSeq(s, Len(s) - Len(suffix) + 1, Len(s)) = suffix

InvokedBefore(a, b) ==
    \E i, j \in 1..Len(ctorOrder) :
        i < j /\ ctorOrder[i] = a /\ ctorOrder[j] = b

\* C3 as stated: on a Unix-like target, with TEST meant to have priority 10
\* and OTHER priority 20, the constructors are registered in the sections
\* ending in 00010 and 00020, and TEST's constructor is invoked before
\* OTHER's.
C3_Original_PrioritySections ==
    (/\ cfg_unix(target_os)
     /\ phase \notin {"build", "rejected"}
     /\ Declared = {NAME_TEST, NAME_OTHER})
    => /\ \A s \in ItemOf(NAME_TEST).I_sections : EndsWith(s, STR_00010)
       /\ \A s \in ItemOf(NAME_OTHER).I_sections : EndsWith(s, STR_00020)
       /\ ~InvokedBefore(NAME_OTHER, NAME_TEST)

\* C3 as amended: a declaration carries no priority; every binding gets
\* priority 65535, so on a Unix-like target every constructor is registered
\* in .init_array.65535, and the loader's section order puts no constructor
\* before another.
C3_Amended_FixedPriority ==
    \A x \in crate :
        /\ x.priority = 65535
        /\ cfg_unix(target_os) => x.I_sections = {STR_INIT_ARRAY_65535}
        /\ \A y \in crate : \A s \in x.I_sections : \A t \in y.I_sections :
               ~LoaderCtorBefore(target_os, s, t)

C3_Witness ==
    /\ target_os = "linux"
    /\ phase = "main"
    /\ ctorOrder = <<NAME_OTHER, NAME_TEST>>

\* C6: a binary exists only if every binding's type is Sync and Sized and
\* the target is Windows-like, Apple-like or Unix-like, and then every
\* binding has its two registration entries; a rejected build runs nothing.
C6_BuildGate ==
    /\ phase \notin {"build", "rejected"} =>
           \A x \in crate :
               /\ x.ty.sync /\ x.ty.sized
               /\ cfg_windows(target_os) \/ cfg_apple(target_os)
                  \/ cfg_unix(target_os)
               /\ Cardinality(x.I_sections) = 1
               /\ Cardinality(x.D_sections) = 1
    /\ phase = "rejected" =>
           /\ ctorPending = {} /\ dtorPending = {}
           /\ \A b \in Names :
                  cell[b] = "Uninitialized" /\ initEvals[b] = 0
           /\ lastRead = NoRead

C6_Witness ==
    /\ phase = "rejected"
    /\ cfg_unsupported(target_os)
    /\ \E x \in crate : ~x.ty.sync
    /\ \E x \in crate : ~x.ty.sized

\* C7: once an initializer has panicked the run is a startup fault: the
\* process is in the fault state with that cell still Uninitialized, and
\* nothing runs any more (no entry point, no deref).
C7_PanicIsStartupFault ==
    panicked # {} =>
        /\ phase = "fault"
        /\ \A b \in panicked : cell[b] = "Uninitialized"
        /\ ~ENABLED Next

C7_Witness ==
    /\ panicked # {}
    /\ \E b \in Declared : cell[b] = "Initialized"

\* C8 as stated: no deref() ever observes a Destroyed cell, and no value is
\* dropped twice.
C8_NoReadAfterDestroy ==
    /\ lastRead.st # "Destroyed"
    /\ \A b \in Names : drops[b] <= 1

\* C9: a cell changes only in its own constructor (Uninitialized ->
\* Initialized) or its own destructor (Initialized -> Destroyed), each of
\* which leaves the other cells alone; a deref() changes no cell; and
\* deref() is possible in every state of the cell (it checks nothing).
C9_CellFrame ==
    /\ [][/\ \A b \in Names :
                cell'[b] # cell[b] =>
                    /\ \A c \in Names \ {b} :
                           cell'[c] = cell[c] /\ val'[c] = val[c]
                    /\ \/ /\ initEvals'[b] = initEvals[b] + 1
                          /\ cell[b] = "Uninitialized"
                          /\ cell'[b] = "Initialized"
                       \/ /\ drops'[b] = drops[b] + 1
                          /\ cell[b] = "Initialized"
                          /\ cell'[b] = "Destroyed"
          /\ lastRead' # lastRead => cell' = cell /\ val' = val]_vars
    /\ [](\A ctx \in Contexts, b \in Declared :
              CanRun(ctx) => ENABLED deref(ctx, b))

C9_Witness ==
    /\ lastRead.ctx = "drop"
    /\ lastRead.st = "Destroyed"
    /\ \E b \in Declared : cell[b] = "Initialized"

\* C10 as stated: bindings with distinct names have distinct generated
\* modules.
C10_ModuleIdentInjective ==
    \A x, y \in crate : x.name # y.name => x.module_name # y.module_name

\* C4: on a supported target the section name is a single, determined name;
\* on Windows-like and Unix-like targets two names are equal only for equal
\* (phase, priority); on Apple-like targets they are equal exactly when the
\* phases are.
C4_SectionNameInjective ==
    (secOut.done1 /\ secOut.done2 /\ ~cfg_unsupported(secIn.os)) =>
        /\ Cardinality(secOut.n1) = 1
        /\ Cardinality(secOut.n2) = 1
        /\ cfg_windows(secIn.os) \/ cfg_unix(secIn.os) =>
               (secOut.n1 = secOut.n2
                    <=> (secIn.ph1 = secIn.ph2 /\ secIn.p1 = secIn.p2))
        /\ cfg_apple(secIn.os) =>
               (secOut.n1 = secOut.n2 <=> secIn.ph1 = secIn.ph2)

C4_Witness ==
    /\ secOut.done1 /\ secOut.done2
    /\ secIn.os = "android"
    /\ secIn.ph1 # secIn.ph2
    /\ secIn.p1 = secIn.p2
    /\ secOut.n1 # secOut.n2

\* C5: for p1 < p2 on Windows-like and Unix-like targets the construct
\* section name of p1 is lexically below that of p2, both being a fixed
\* prefix followed by exactly 5 digits.
C5_LexicalOrderFollowsPriority ==
    (/\ secOut.done1 /\ secOut.done2
     /\ cfg_windows(secIn.os) \/ cfg_unix(secIn.os)
     /\ secIn.ph1 = "construct" /\ secIn.ph2 = "construct"
     /\ secIn.p1 < secIn.p2)
    => /\ secOut.n1 # {} /\ secOut.n2 # {}
       /\ \A s \in secOut.n1 : \A t \in secOut.n2 :
              /\ LexLess(s, t)
              /\ Len(s) = Len(t)
              /\ Len(s) = 5 + (IF cfg_windows(secIn.os)
                               THEN Len(STR_CRT_XCU) ELSE Len(STR_INIT_ARRAY))

C5_Witness ==
    /\ secOut.done1 /\ secOut.done2
    /\ secIn.os = "windows"
    /\ secIn.ph1 = "construct" /\ secIn.ph2 = "construct"
    /\ secIn.p1 = 9 /\ secIn.p2 = 10
    /\ \A s \in secOut.n1 : \A t \in secOut.n2 : LexLess(s, t)

====
